---- MODULE Spec2Model ----
(***************************************************************************)
(* Dialogue controller of the chat assistant: the LangGraph workflow of    *)
(* src/src/graph.py, its four nodes (src/src/nodes.py), the Pydantic       *)
(* models (src/src/schemas.py), the helpers of src/src/utils.py and the    *)
(* caller invoke_graph of src/src/app.py.                                  *)
(*                                                                         *)
(* A Python string is a sequence of atoms (pieces of text); concatenation  *)
(* is \o.  An Optional value is a record [isNone, items]: None, or the     *)
(* list / string held in items.                                            *)
(***************************************************************************)
EXTENDS Integers, Sequences, FiniteSets, TLC

VARIABLES
    store,          \* MemorySaver: thread id -> <<>> (no checkpoint) or <<channel values>>
    run,            \* thread id -> the invocation in flight: position, retry-loop locals, trace
    hist,           \* thread id -> route taken by each finished or running invocation, oldest first
    summaries,      \* thread id -> how each Summarizer execution ended, oldest first
    sent,           \* thread id -> ids of the messages whose text a successful summary request held
    log,            \* traced thread id -> what the thread received so far: user texts, call results
    turns,          \* number of invocations started so far (all threads)
    GROQ_API_KEY    \* whether the credential is present in the environment

vars == <<store, run, hist, summaries, sent, log, turns, GROQ_API_KEY>>

-----------------------------------------------------------------------------
(* Bounds of the model *)

MaxTurns == 3

(* Program constants *)

MAX_CLARIFICATION_ATTEMPTS == 1
TOKEN_THRESHOLD == 800
max_retries == 3
RecentAnalyze == 5
KeepLast == 5

-----------------------------------------------------------------------------
(* Optional values and small helpers *)

None == [isNone |-> TRUE, items |-> <<>>]
Some(x) == [isNone |-> FALSE, items |-> x]
\* Python truthiness of an Optional[list] / Optional[str]
Truthy(o) == ~o.isNone /\ o.items # <<>>

RECURSIVE SumSeq(_)
SumSeq(s) == IF s = <<>> THEN 0 ELSE Head(s) + SumSeq(Tail(s))

RECURSIVE Flatten(_)
Flatten(ss) == IF ss = <<>> THEN <<>> ELSE Head(ss) \o Flatten(Tail(ss))

\* "sep".join(parts), parts a sequence of strings
RECURSIVE Join(_, _)
Join(sep, parts) ==
    IF parts = <<>> THEN <<>>
    ELSE IF Len(parts) = 1 THEN Head(parts)
    ELSE Head(parts) \o sep \o Join(sep, Tail(parts))

\* s[-n:]
LastN(s, n) == IF Len(s) > n THEN SubSeq(s, Len(s) - n + 1, Len(s)) ELSE s
\* s[i:] with a 0-based start index i >= 0
From(s, i) == IF i >= Len(s) THEN <<>> ELSE SubSeq(s, i + 1, Len(s))

SelectSeqIn(s, S) == SelectSeq(s, LAMBDA x : x \in S)

-----------------------------------------------------------------------------
(* utils.py *)

\* Tokens the encoder yields for one atom of text.  The long texts stand for
\* user questions and replies of several hundred tokens.
ENCODER(atom) ==
    CASE atom = "long question" -> 394
      [] atom = "long reply"    -> 401
      [] OTHER                  -> 1

count_tokens(text) ==
    IF text = <<>> THEN 0
    ELSE SumSeq([i \in 1..Len(text) |-> ENCODER(text[i])])

\* One "role: content" line per message, joined by newlines.
messages_to_text(messages) ==
    Join(<<"\n">>,
         [i \in 1..Len(messages) |-> <<messages[i].role, ": ">> \o messages[i].content])

FieldTitle(field) ==
    CASE field = "user_profile"   -> "User Profile"
      [] field = "key_facts"      -> "Key Facts"
      [] field = "decisions"      -> "Decisions"
      [] field = "open_questions" -> "Open Questions"
      [] field = "todos"          -> "Todos"

\* The lines one requested field contributes: nothing when it is empty.
FieldSection(summary, field) ==
    IF field \notin DOMAIN summary     \* not hasattr(summary, field): skipped
    THEN <<>>
    ELSE IF field = "user_profile"
    THEN IF summary.user_profile = <<>> THEN <<>>
         ELSE << <<"\n", FieldTitle(field), ":">> >>
              \o [i \in 1..Len(summary.user_profile) |->
                    <<"  - ", summary.user_profile[i][1], ": ", summary.user_profile[i][2]>>]
    ELSE IF summary[field] = <<>> THEN <<>>
         ELSE << <<"\n", FieldTitle(field), ":">> >>
              \o [i \in 1..Len(summary[field]) |-> <<"  - ", summary[field][i]>>]

format_summary_for_prompt(summary, fields) ==
    IF fields = <<>> THEN <<>>
    ELSE LET sections == << <<"=== SESSION MEMORY ===">> >>
                         \o Flatten([i \in 1..Len(fields) |-> FieldSection(summary, fields[i])])
         IN  IF Len(sections) > 1 THEN Join(<<"\n">>, sections) ELSE <<>>

-----------------------------------------------------------------------------
(* schemas.py *)

valid_fields == {"user_profile", "key_facts", "decisions", "open_questions", "todos"}

SessionSummary ==
    [user_profile |-> <<>>, key_facts |-> <<>>, decisions |-> <<>>,
     open_questions |-> <<>>, todos |-> <<>>,
     message_range_summarized |-> [from |-> 0, to |-> 0]]

\* Faulty variant: the requested names are accepted as they are.
validate_memory_fields_any(v) == v

\* field validator of needed_context_from_memory
validate_memory_fields(v) ==
    IF v.isNone THEN v
    ELSE IF \E i \in 1..Len(v.items) : v.items[i] \notin valid_fields
         THEN Some(SelectSeqIn(v.items, valid_fields))
         ELSE v

\* Faulty variant: the questions are kept whatever is_ambiguous says.
validate_ambiguity_logic_keep(self) == self

\* model validator (mode "after")
validate_ambiguity_logic(self) ==
    IF ~self.is_ambiguous /\ Truthy(self.clarifying_questions)
    THEN [self EXCEPT !.clarifying_questions = None]
    ELSE self

\* QueryAnalysis(**fields): field validators, then the model validator.
QueryAnalysis(raw) ==
    validate_ambiguity_logic(
        [raw EXCEPT !.needed_context_from_memory = validate_memory_fields(@)])

\* QueryAnalysis(original_query=q, is_ambiguous=a, needed_context_from_memory=n)
QueryAnalysisOf(q, a, n) ==
    QueryAnalysis([original_query |-> q, is_ambiguous |-> a, rewritten_query |-> None,
                   needed_context_from_memory |-> n, final_augmented_context |-> None,
                   clarifying_questions |-> None])

\* Fresh message id (a uuid in the code): unused by every message of left.
NewId(left) ==
    1 + (IF left = <<>> THEN 0
         ELSE CHOOSE m \in {left[i].id : i \in 1..Len(left)} :
                \A j \in 1..Len(left) : left[j].id <= m)

\* A dict message becomes a HumanMessage / AIMessage, whose type is its role.
Coerce(m) ==
    [m EXCEPT !.role = CASE m.role = "user" -> "human"
                         [] m.role = "assistant" -> "ai"
                         [] OTHER -> m.role]

\* Faulty variant: the channel has no reducer, the returned messages
\* replace the stored ones.
add_messages_overwrite(left, right) ==
    [i \in 1..Len(right) |->
        [Coerce(right[i]) EXCEPT !.id = IF right[i].id = 0 THEN NewId(left) + i ELSE right[i].id]]

\* Reducer of GraphState.messages: a message whose id is already in left
\* replaces that message in place, any other message is appended (with a
\* fresh id when it has none, id 0).
RECURSIVE add_messages(_, _)
add_messages(left, right) ==
    IF right = <<>> THEN left
    ELSE LET m == Coerce(Head(right))
             at == {i \in 1..Len(left) : m.id # 0 /\ left[i].id = m.id}
             merged == IF at # {}
                       THEN [left EXCEPT ![CHOOSE i \in at : TRUE] = m]
                       ELSE Append(left, [m EXCEPT !.id = IF m.id = 0 THEN NewId(left) ELSE m.id])
         IN  add_messages(merged, Tail(right))

\* The graph applies a node's returned state: messages through add_messages,
\* every other key last-write-wins.
ApplyUpdate(values, update) ==
    [update EXCEPT !.messages = add_messages(values.messages, update.messages)]

-----------------------------------------------------------------------------
(* graph.py: routing and the initial state *)

initialize_state ==
    [messages |-> <<>>,
     summary |-> SessionSummary,
     analysis |-> QueryAnalysisOf(<<>>, FALSE, None),
     current_token_count |-> 0,
     clarification_count |-> 0]

\* state.get("analysis") when the key was never written
NoAnalysis == [absent |-> TRUE]

\* Faulty variant: no loop-prevention guard.
should_clarify_noguard(state) ==
    IF state.analysis # NoAnalysis /\ state.analysis.is_ambiguous THEN "clarify" ELSE "answer"

\* Faulty variant: the guard admits one more clarification attempt.
should_clarify_second(state) ==
    LET analysis == state.analysis
        clarification_count == state.clarification_count
    IN  IF clarification_count >= MAX_CLARIFICATION_ATTEMPTS + 1 THEN "answer"
        ELSE IF analysis # NoAnalysis /\ analysis.is_ambiguous THEN "clarify"
        ELSE "answer"

should_clarify(state) ==
    LET analysis == state.analysis
        clarification_count == state.clarification_count
    IN  IF clarification_count >= MAX_CLARIFICATION_ATTEMPTS THEN "answer"
        ELSE IF analysis # NoAnalysis /\ analysis.is_ambiguous THEN "clarify"
        ELSE "answer"

\* Faulty variant: the threshold itself already triggers summarization.
should_summarize_ge(state) ==
    IF state.current_token_count >= TOKEN_THRESHOLD THEN "summarize" ELSE "end"

should_summarize(state) ==
    IF state.current_token_count > TOKEN_THRESHOLD THEN "summarize" ELSE "end"

\* Faulty variant: the edge out of clarify leads to answer instead of END.
NextNode_clarify_to_answer(node, state) ==
    CASE node = "analyze_query" -> should_clarify(state)
      [] node = "clarify" -> "answer"
      [] node = "answer" ->
            IF should_summarize(state) = "summarize" THEN "summarize" ELSE "idle"
      [] node = "summarize" -> "idle"

\* create_graph: the entry point is analyze_query; the node an edge leads to
\* once `node` has returned and the channels hold `state` ("idle" is END).
NextNode(node, state) ==
    CASE node = "analyze_query" -> should_clarify(state)
      [] node = "clarify" -> "idle"
      [] node = "answer" ->
            IF should_summarize(state) = "summarize" THEN "summarize" ELSE "idle"
      [] node = "summarize" -> "idle"

-----------------------------------------------------------------------------
(* nodes.py: what each node computes *)

get_message_content(message) == message.content

\* Label of a message in the prompts: "user" for a dict with role user,
\* otherwise the message object's type (a dict, id 0, has none).
PromptLabel(msg) ==
    IF msg.id = 0 THEN (IF msg.role = "user" THEN "user" ELSE "unknown") ELSE msg.role

PromptLines(messages) ==
    Join(<<"\n">>,
         [i \in 1..Len(messages) |->
            <<PromptLabel(messages[i]), ": ">> \o get_message_content(messages[i])])

latest_message(state) == get_message_content(state.messages[Len(state.messages)])

\* analyze_query_node, a structured response parsed into QueryAnalysis
analyze_response(state, raw) ==
    LET context_text == PromptLines(LastN(state.messages, RecentAnalyze))
        parsed == QueryAnalysis(raw)
        response == [parsed EXCEPT !.original_query = latest_message(state)]
        memory_context ==
            format_summary_for_prompt(state.summary, response.needed_context_from_memory.items)
        augmented ==
            IF Truthy(response.needed_context_from_memory)
            THEN [response EXCEPT !.final_augmented_context =
                     Some(memory_context \o <<"\n\n">>
                          \o <<"Recent conversation:\n">> \o context_text)]
            ELSE response
    IN  [state EXCEPT !.analysis = augmented]

\* Faulty variant: the except branch leaves the previous analysis in place.
analyze_fallback_keep(state) == state

\* analyze_query_node, the except branch: assume the query is clear
analyze_fallback(state) ==
    [state EXCEPT !.analysis = QueryAnalysisOf(latest_message(state), FALSE, Some(<<>>))]

\* Faulty variant: the token count leaves out the new reply.
answer_success_stale(state, content) ==
    LET new_message == [role |-> "assistant", content |-> content, id |-> 0]
        counted == [state EXCEPT
                      !.current_token_count = count_tokens(messages_to_text(state.messages)),
                      !.clarification_count = 0]
    IN  [counted EXCEPT !.messages = <<new_message>>]

\* answer_node, the generation call returned content
answer_success(state, content) ==
    LET new_message == [role |-> "assistant", content |-> content, id |-> 0]
        counted == [state EXCEPT
                      !.current_token_count =
                          count_tokens(messages_to_text(state.messages)
                                       \o <<"\n", "assistant", ": ">> \o content),
                      !.clarification_count = 0]
    IN  [counted EXCEPT !.messages = <<new_message>>]

\* Faulty variant: the except branch resets the clarification counter too.
answer_failure_reset(state, e) ==
    LET error_msg == [role |-> "assistant",
                      content |-> <<"I apologize, but I encountered an error: ", e>>,
                      id |-> 0]
    IN  [state EXCEPT !.messages = <<error_msg>>, !.clarification_count = 0]

\* answer_node, the except branch
answer_failure(state, e) ==
    LET error_msg == [role |-> "assistant",
                      content |-> <<"I apologize, but I encountered an error: ", e>>,
                      id |-> 0]
    IN  [state EXCEPT !.messages = <<error_msg>>]

\* Faulty variant: the counter is not advanced.
clarify_node_nocount(state) ==
    LET questions == state.analysis.clarifying_questions
        clarification ==
            IF ~Truthy(questions)
            THEN <<"I'm not sure I understand. Could you please provide more details?">>
            ELSE IF Len(questions.items) = 1
                 THEN <<questions.items[1]>>
                 ELSE <<"I need some clarification:\n\n">>
                      \o Join(<<"\n">>,
                              [i \in 1..Len(questions.items) |-> <<"- ", questions.items[i]>>])
    IN  [state EXCEPT !.messages =
            <<[role |-> "assistant", content |-> clarification, id |-> 0]>>]

\* Faulty variant: a single question is put in a list like several ones.
clarify_node_list(state) ==
    LET questions == state.analysis.clarifying_questions
        clarification ==
            IF ~Truthy(questions)
            THEN <<"I'm not sure I understand. Could you please provide more details?">>
            ELSE <<"I need some clarification:\n\n">>
                 \o Join(<<"\n">>,
                         [i \in 1..Len(questions.items) |-> <<"- ", questions.items[i]>>])
    IN  [state EXCEPT !.clarification_count = @ + 2,
                      !.messages =
                          <<[role |-> "assistant", content |-> clarification, id |-> 0]>>]

\* Faulty variant: the questions are removed from the analysis once asked.
clarify_node_consume(state) ==
    LET questions == state.analysis.clarifying_questions
        clarification ==
            IF ~Truthy(questions)
            THEN <<"I'm not sure I understand. Could you please provide more details?">>
            ELSE IF Len(questions.items) = 1
                 THEN <<questions.items[1]>>
                 ELSE <<"I need some clarification:\n\n">>
                      \o Join(<<"\n">>,
                              [i \in 1..Len(questions.items) |-> <<"- ", questions.items[i]>>])
    IN  [state EXCEPT !.clarification_count = @ + 2,
                      !.analysis.clarifying_questions = None,
                      !.messages =
                          <<[role |-> "assistant", content |-> clarification, id |-> 0]>>]

\* Faulty variant: the Clarifier counts the tokens of the history it was given.
clarify_node_recount(state) ==
    LET questions == state.analysis.clarifying_questions
        clarification ==
            IF ~Truthy(questions)
            THEN <<"I'm not sure I understand. Could you please provide more details?">>
            ELSE IF Len(questions.items) = 1
                 THEN <<questions.items[1]>>
                 ELSE <<"I need some clarification:\n\n">>
                      \o Join(<<"\n">>,
                              [i \in 1..Len(questions.items) |-> <<"- ", questions.items[i]>>])
    IN  [state EXCEPT !.clarification_count = @ + 2,
                      !.current_token_count = count_tokens(messages_to_text(state.messages)),
                      !.messages =
                          <<[role |-> "assistant", content |-> clarification, id |-> 0]>>]

\* Faulty variant: the counter is advanced once.
clarify_node_once(state) ==
    LET questions == state.analysis.clarifying_questions
        clarification ==
            IF ~Truthy(questions)
            THEN <<"I'm not sure I understand. Could you please provide more details?">>
            ELSE IF Len(questions.items) = 1
                 THEN <<questions.items[1]>>
                 ELSE <<"I need some clarification:\n\n">>
                      \o Join(<<"\n">>,
                              [i \in 1..Len(questions.items) |-> <<"- ", questions.items[i]>>])
    IN  [state EXCEPT !.clarification_count = @ + 1,
                      !.messages =
                          <<[role |-> "assistant", content |-> clarification, id |-> 0]>>]

clarify_node(state) ==
    LET analysis == state.analysis
        clarification_count == state.clarification_count
        first == [state EXCEPT !.clarification_count = clarification_count + 1]
        questions == analysis.clarifying_questions
        clarification ==
            IF ~Truthy(questions)
            THEN <<"I'm not sure I understand. Could you please provide more details?">>
            ELSE IF Len(questions.items) = 1
                 THEN <<questions.items[1]>>
                 ELSE <<"I need some clarification:\n\n">>
                      \o Join(<<"\n">>,
                              [i \in 1..Len(questions.items) |-> <<"- ", questions.items[i]>>])
        new_message == [role |-> "assistant", content |-> clarification, id |-> 0]
        second == [first EXCEPT !.clarification_count = first.clarification_count + 1]
    IN  [second EXCEPT !.messages = <<new_message>>]

\* Faulty variant: only the newest exchange is summarized.
messages_to_summarize_newest(state) == LastN(state.messages, 2)

messages_to_summarize(state) ==
    From(state.messages, state.summary.message_range_summarized.to)

\* Faulty variant: the range proposed by the generator is stored.
summarize_response_proposed(state, response) ==
    LET kept == LastN(state.messages, KeepLast)
    IN  [state EXCEPT !.summary = response,
                      !.messages = kept,
                      !.current_token_count = count_tokens(messages_to_text(kept))]

\* Faulty variant: the range starts where the previous summary ended.
summarize_response_from_last(state, response) ==
    LET messages == state.messages
        last_summarized_index == state.summary.message_range_summarized.to
        summary == [response EXCEPT
                      !.message_range_summarized =
                          [from |-> last_summarized_index, to |-> Len(messages)]]
        kept == LastN(messages, KeepLast)
    IN  [state EXCEPT !.summary = summary,
                      !.messages = kept,
                      !.current_token_count = count_tokens(messages_to_text(kept))]

\* Faulty variant: the range end is advanced by the length of the whole history.
summarize_response_advance(state, response) ==
    LET messages == state.messages
        last_summarized_index == state.summary.message_range_summarized.to
        summary == [response EXCEPT
                      !.message_range_summarized =
                          [from |-> 0, to |-> last_summarized_index + Len(messages)]]
        kept == LastN(messages, KeepLast)
    IN  [state EXCEPT !.summary = summary,
                      !.messages = kept,
                      !.current_token_count = count_tokens(messages_to_text(kept))]

\* Faulty variant: the tokens are counted over the full history.
summarize_response_count_all(state, response) ==
    LET messages == state.messages
        summary == [response EXCEPT
                      !.message_range_summarized = [from |-> 0, to |-> Len(messages)]]
    IN  [state EXCEPT !.summary = summary,
                      !.messages = LastN(messages, KeepLast),
                      !.current_token_count = count_tokens(messages_to_text(messages))]

\* summarize_node, a structured response parsed into SessionSummary
summarize_response(state, response) ==
    LET messages == state.messages
        summary == [response EXCEPT
                      !.message_range_summarized = [from |-> 0, to |-> Len(messages)]]
        kept == LastN(messages, KeepLast)
    IN  [state EXCEPT !.summary = summary,
                      !.messages = kept,
                      !.current_token_count = count_tokens(messages_to_text(kept))]

\* Faulty variant: the tokens are counted again when nothing is summarized.
summarize_nothing_recount(state) ==
    [state EXCEPT !.current_token_count =
                      count_tokens(messages_to_text(LastN(state.messages, KeepLast)))]

\* summarize_node, `if not messages_to_summarize: return state`
summarize_nothing(state) == state

\* Faulty variant: the range is advanced although nothing was summarized.
summarize_failure_marks(state) ==
    [state EXCEPT !.summary.message_range_summarized =
                      [from |-> 0, to |-> Len(state.messages)]]

\* summarize_node, the outer except: the error is printed, the state returned
summarize_failure(state) == state

\* Faulty variant: the same wait before every retry.
Backoff_flat(attempt) == 5

\* time.sleep(0.5 * (attempt + 1)), in tenths of a second
Backoff(attempt) == 5 * (attempt + 1)

-----------------------------------------------------------------------------
(* Inputs: what the user types and what the generation capability returns *)

SessionIds == {"default-session"}

UserTexts == {<<"Hello">>, <<"long question">>}

Replies == {<<"long reply">>}

\* Failures of a structured generation call, and of a free-form one
CallErrors == {"schema mismatch", "connection error"}
AnswerErrors == {"connection error"}

RawAnalysis(a, n, q) ==
    [original_query |-> <<"generated query">>, is_ambiguous |-> a,
     rewritten_query |-> None, needed_context_from_memory |-> n,
     final_augmented_context |-> Some(<<"generated context">>),
     clarifying_questions |-> q]

\* Structured outputs of the generator for QueryAnalysis, before validation
AnalysisOutputs ==
    { RawAnalysis(FALSE, None, None),
      RawAnalysis(FALSE, Some(<<"bogus", "key_facts">>), Some(<<"q1">>)),
      RawAnalysis(TRUE, Some(<<>>), None),
      RawAnalysis(TRUE, None, Some(<<>>)),
      RawAnalysis(TRUE, Some(<<"user_profile", "history", "key_facts">>), Some(<<"q1">>)),
      RawAnalysis(TRUE, None, Some(<<"q1", "q2">>)),
      RawAnalysis(TRUE, None, Some(<<"q1", "q2", "q3", "q4">>)) }

\* Structured outputs of the generator for SessionSummary
SummaryOutputs ==
    { [user_profile |-> << <<"budget", "$3000">> >>, key_facts |-> <<"Traveling in July">>,
       decisions |-> <<>>, open_questions |-> <<>>, todos |-> <<>>,
       message_range_summarized |-> [from |-> 0, to |-> 3]],
      [user_profile |-> <<>>, key_facts |-> <<>>,
       decisions |-> <<>>, open_questions |-> <<>>, todos |-> <<"Book flight">>,
       message_range_summarized |-> [from |-> 2, to |-> 1]] }

-----------------------------------------------------------------------------
(* State *)

NoResponse == [none |-> TRUE]

\* run[s]: pc is the node about to execute ("idle": no invocation in flight);
\* attempt and last_error are the locals of the retry loop in progress.  The
\* rest is the trace of the current invocation: the nodes that have returned
\* (steps), and for the node that ran last the channel values it started
\* from (pre), how it ended (outcome), the generation requests it issued,
\* the sleeps it took, what its last generation request returned (response:
\* a structured output, [text |-> reply] or [error |-> failure]), and the
\* error that escaped graph.invoke, if any (raised).
Idle ==
    [pc |-> "idle", attempt |-> 0, last_error |-> "", steps |-> <<>>, requests |-> 0,
     sleeps |-> <<>>, pre |-> initialize_state, outcome |-> "", raised |-> "",
     response |-> NoResponse]

Init ==
    /\ store = [s \in SessionIds |-> <<>>]
    /\ run = [s \in SessionIds |-> Idle]
    /\ hist = [s \in SessionIds |-> <<>>]
    /\ summaries = [s \in SessionIds |-> <<>>]
    /\ sent = [s \in SessionIds |-> {}]
    /\ log = <<>>
    /\ turns = 0
    /\ GROQ_API_KEY = TRUE

values(s) == store[s][1]

\* thread s received `input` at `node`, which went on as `outcome`
Logged(s, node, outcome, input) ==
    log' = IF s \in DOMAIN log
           THEN [log EXCEPT ![s] = Append(@, [node |-> node, outcome |-> outcome,
                                              input |-> input])]
           ELSE log

\* A node returned `update` after `requests` more generation requests: the
\* graph merges the update into the channels, writes the checkpoint and
\* moves to the node the outgoing edge names.
Finish(s, node, update, outcome, requests, response) ==
    LET new == ApplyUpdate(values(s), update)
        next == NextNode(node, new)
        first == run[s].attempt = 0
    IN  /\ store' = [store EXCEPT ![s] = <<new>>]
        /\ run' = [run EXCEPT ![s] =
                     [@ EXCEPT !.pc = next, !.attempt = 0, !.last_error = "",
                               !.steps = Append(@, node),
                               !.requests = IF first THEN requests ELSE @ + requests,
                               !.sleeps = IF first THEN <<>> ELSE @,
                               !.pre = values(s), !.outcome = outcome,
                               !.response = response]]
        /\ hist' = IF node = "analyze_query"
                   THEN [hist EXCEPT ![s] = Append(@, next)]
                   ELSE hist
        /\ summaries' = IF node = "summarize"
                        THEN [summaries EXCEPT ![s] = Append(@, outcome)]
                        ELSE summaries
        /\ sent' = IF node = "summarize" /\ outcome = "ok"
                   THEN LET slice == messages_to_summarize(values(s))
                        IN  [sent EXCEPT ![s] =
                               @ \cup { slice[i].id : i \in 1..Len(slice) }]
                   ELSE sent
        /\ Logged(s, node, outcome, response)
        /\ UNCHANGED <<turns, GROQ_API_KEY>>

\* One failed attempt of a retry loop that has attempts left: sleep, continue.
Retry(s, e) ==
    LET first == run[s].attempt = 0
    IN  /\ run[s].attempt < max_retries - 1
        /\ run' = [run EXCEPT ![s] =
                     [@ EXCEPT !.attempt = @ + 1, !.last_error = e,
                               !.requests = IF first THEN 1 ELSE @ + 1,
                               !.sleeps = IF first THEN <<Backoff(0)>>
                                          ELSE Append(@, Backoff(run[s].attempt))]]
        /\ Logged(s, run[s].pc, "retry", [error |-> e])
        /\ UNCHANGED <<store, hist, summaries, sent, turns, GROQ_API_KEY>>

-----------------------------------------------------------------------------
(* graph.invoke and app.py: invoke_graph *)

\* graph.invoke(input_state, config): the input is written to the thread's
\* channels through the reducers and the entry node is scheduled.
graph_invoke(thread_id, new) ==
    /\ run[thread_id].pc = "idle"
    /\ turns < MaxTurns
    /\ store' = [store EXCEPT ![thread_id] = <<new>>]
    /\ run' = [run EXCEPT ![thread_id] = [Idle EXCEPT !.pc = "analyze_query", !.pre = new]]
    /\ turns' = turns + 1
    /\ Logged(thread_id, "invoke", "",
              IF new.messages = <<>> THEN NoResponse
              ELSE [text |-> new.messages[Len(new.messages)].content])
    /\ UNCHANGED <<hist, summaries, sent, GROQ_API_KEY>>

\* Faulty variant: the snapshot of the default thread is read for every thread.
invoke_graph_default(thread_id, user_message) ==
    LET state_snapshot == store["default-session"]
        message == [role |-> "user", content |-> user_message, id |-> 0]
        new == IF state_snapshot # <<>> /\ state_snapshot[1].messages # <<>>
               THEN [state_snapshot[1] EXCEPT !.messages = add_messages(@, <<message>>)]
               ELSE ApplyUpdate(initialize_state,
                                [initialize_state EXCEPT !.messages = <<message>>])
    IN  graph_invoke(thread_id, new)

\* Faulty variant: the full initial state is passed on every message.
invoke_graph_fresh(thread_id, user_message) ==
    LET message == [role |-> "user", content |-> user_message, id |-> 0]
        base == IF store[thread_id] = <<>> THEN initialize_state ELSE store[thread_id][1]
    IN  graph_invoke(thread_id,
                     ApplyUpdate(base, [initialize_state EXCEPT !.messages = <<message>>]))

invoke_graph(thread_id, user_message) ==
    LET state_snapshot == store[thread_id]
        message == [role |-> "user", content |-> user_message, id |-> 0]
        new == IF state_snapshot # <<>> /\ state_snapshot[1].messages # <<>>
               THEN \* state exists: only the new message is passed
                    [state_snapshot[1] EXCEPT !.messages = add_messages(@, <<message>>)]
               ELSE \* first message: the full initial state is passed
                    ApplyUpdate(initialize_state,
                                [initialize_state EXCEPT !.messages = <<message>>])
    IN  graph_invoke(thread_id, new)

-----------------------------------------------------------------------------
(* The nodes, one action per way a node's external call can go *)

AnalyzeSucceeds(s, raw) ==
    /\ run[s].pc = "analyze_query"
    /\ values(s).messages # <<>>
    /\ GROQ_API_KEY
    /\ Finish(s, "analyze_query", analyze_response(values(s), raw), "ok", 1, raw)

AnalyzeRetries(s, e) ==
    /\ run[s].pc = "analyze_query"
    /\ values(s).messages # <<>>
    /\ GROQ_API_KEY
    /\ Retry(s, e)

\* the last attempt failed: the error is raised to the outer except
AnalyzeGivesUp(s, e) ==
    /\ run[s].pc = "analyze_query"
    /\ values(s).messages # <<>>
    /\ GROQ_API_KEY
    /\ run[s].attempt = max_retries - 1
    /\ Finish(s, "analyze_query", analyze_fallback(values(s)), "failed", 1, [error |-> e])

\* get_groq_client raises inside the outer try
AnalyzeNoKey(s) ==
    /\ run[s].pc = "analyze_query"
    /\ values(s).messages # <<>>
    /\ ~GROQ_API_KEY
    /\ Finish(s, "analyze_query", analyze_fallback(values(s)), "no key", 0, NoResponse)

\* No messages: QueryAnalysis(is_ambiguous=False, needed_context_from_memory=[])
\* lacks the required original_query, so constructing it raises a
\* ValidationError, outside any try; it escapes the node and graph.invoke.
AnalyzeEmpty(s) ==
    /\ run[s].pc = "analyze_query"
    /\ values(s).messages = <<>>
    /\ run' = [run EXCEPT ![s] =
                 [@ EXCEPT !.pc = "idle", !.steps = Append(@, "analyze_query"),
                           !.requests = 0, !.sleeps = <<>>, !.pre = values(s),
                           !.outcome = "raised", !.raised = "ValidationError",
                           !.response = NoResponse]]
    /\ Logged(s, "analyze_query", "raised", NoResponse)
    /\ UNCHANGED <<store, hist, summaries, sent, turns, GROQ_API_KEY>>

Clarify(s) ==
    /\ run[s].pc = "clarify"
    /\ Finish(s, "clarify", clarify_node(values(s)), "ok", 0, NoResponse)

AnswerSucceeds(s, content) ==
    /\ run[s].pc = "answer"
    /\ values(s).messages # <<>>
    /\ GROQ_API_KEY
    /\ Finish(s, "answer", answer_success(values(s), content), "ok", 1, [text |-> content])

\* Faulty variant: a failed request is tried again, like the Analyzer's.
AnswerFails_retry(s, e) ==
    /\ run[s].pc = "answer"
    /\ values(s).messages # <<>>
    /\ GROQ_API_KEY
    /\ IF run[s].attempt < max_retries - 1
       THEN Retry(s, e)
       ELSE Finish(s, "answer", answer_failure(values(s), e), "failed", 1, [error |-> e])

AnswerFails(s, e) ==
    /\ run[s].pc = "answer"
    /\ values(s).messages # <<>>
    /\ GROQ_API_KEY
    /\ Finish(s, "answer", answer_failure(values(s), e), "failed", 1, [error |-> e])

AnswerNoKey(s) ==
    /\ run[s].pc = "answer"
    /\ values(s).messages # <<>>
    /\ ~GROQ_API_KEY
    /\ Finish(s, "answer",
              answer_failure(values(s), "GROQ_API_KEY environment variable not set"),
              "no key", 0, NoResponse)

SummarizeSucceeds(s, response) ==
    /\ run[s].pc = "summarize"
    /\ messages_to_summarize(values(s)) # <<>>
    /\ GROQ_API_KEY
    /\ Finish(s, "summarize", summarize_response(values(s), response), "ok", 1, response)

SummarizeRetries(s, e) ==
    /\ run[s].pc = "summarize"
    /\ messages_to_summarize(values(s)) # <<>>
    /\ GROQ_API_KEY
    /\ Retry(s, e)

SummarizeGivesUp(s, e) ==
    /\ run[s].pc = "summarize"
    /\ messages_to_summarize(values(s)) # <<>>
    /\ GROQ_API_KEY
    /\ run[s].attempt = max_retries - 1
    /\ Finish(s, "summarize", summarize_failure(values(s)), "failed", 1, [error |-> e])

-----------------------------------------------------------------------------
(* The application: a browser session sending messages.  The page stops     *)
(* before the chat input when GROQ_API_KEY is not configured.               *)

Invoke == \E s \in SessionIds, u \in UserTexts : GROQ_API_KEY /\ invoke_graph(s, u)
AnalyzeOk == \E s \in SessionIds, raw \in AnalysisOutputs : AnalyzeSucceeds(s, raw)
AnalyzeRetry == \E s \in SessionIds, e \in CallErrors : AnalyzeRetries(s, e)
AnalyzeExhausted == \E s \in SessionIds, e \in CallErrors : AnalyzeGivesUp(s, e)
ClarifyStep == \E s \in SessionIds : Clarify(s)
AnswerOk == \E s \in SessionIds, c \in Replies : AnswerSucceeds(s, c)
AnswerError == \E s \in SessionIds, e \in AnswerErrors : AnswerFails(s, e)
SummarizeOk == \E s \in SessionIds, r \in SummaryOutputs : SummarizeSucceeds(s, r)
SummarizeRetry == \E s \in SessionIds, e \in CallErrors : SummarizeRetries(s, e)
SummarizeExhausted == \E s \in SessionIds, e \in CallErrors : SummarizeGivesUp(s, e)

Nodes ==
    \/ AnalyzeOk
    \/ AnalyzeRetry
    \/ AnalyzeExhausted
    \/ ClarifyStep
    \/ AnswerOk
    \/ AnswerError
    \/ SummarizeOk
    \/ SummarizeRetry
    \/ SummarizeExhausted

Next == Invoke \/ Nodes

Spec == Init /\ [][Next]_vars

-----------------------------------------------------------------------------
(* The compiled graph used directly: graph.invoke on any input the module   *)
(* builds (initialize_state() with or without a first message), with or     *)
(* without the credential in the environment.                               *)

InitGraph ==
    /\ store = [s \in SessionIds |-> <<>>]
    /\ run = [s \in SessionIds |-> Idle]
    /\ hist = [s \in SessionIds |-> <<>>]
    /\ summaries = [s \in SessionIds |-> <<>>]
    /\ sent = [s \in SessionIds |-> {}]
    /\ log = <<>>
    /\ turns = 0
    /\ GROQ_API_KEY \in BOOLEAN

InvokeMessage == \E s \in SessionIds, u \in UserTexts : invoke_graph(s, u)
InvokeInitial ==
    \E s \in SessionIds :
        /\ store[s] = <<>>
        /\ graph_invoke(s, ApplyUpdate(initialize_state, initialize_state))
AnalyzeNoMessages == \E s \in SessionIds : AnalyzeEmpty(s)
AnalyzeUnconfigured == \E s \in SessionIds : AnalyzeNoKey(s)
AnswerUnconfigured == \E s \in SessionIds : AnswerNoKey(s)

NextGraph ==
    \/ InvokeMessage
    \/ InvokeInitial
    \/ AnalyzeNoMessages
    \/ AnalyzeUnconfigured
    \/ AnswerUnconfigured
    \/ Nodes

SpecGraph == InitGraph /\ [][NextGraph]_vars

-----------------------------------------------------------------------------
(* Properties *)

Started(s) == store[s] # <<>>
LastNode(s) == IF run[s].steps = <<>> THEN "" ELSE run[s].steps[Len(run[s].steps)]
\* the node that ran last in thread s is `node` and it ended as `outcome`
Ran(s, node, outcome) == LastNode(s) = node /\ run[s].outcome = outcome

\* C1: once the Analyzer has returned, the node scheduled next is a function
\* of clarification_count and analysis.is_ambiguous alone: the Answerer when
\* clarification_count >= 1 whatever is_ambiguous is, otherwise the Clarifier
\* exactly when is_ambiguous holds and the Answerer in every other case.
C1_Route1 ==
    \A s \in SessionIds :
        (LastNode(s) = "analyze_query" /\ run[s].raised = "") =>
            LET count == values(s).clarification_count
                ambiguous == values(s).analysis.is_ambiguous
            IN  /\ count >= 1 => run[s].pc = "answer"
                /\ (count < 1 /\ ambiguous) => run[s].pc = "clarify"
                /\ (count < 1 /\ ~ambiguous) => run[s].pc = "answer"

\* the loop-prevention guard overrides an ambiguous analysis
C1_Witness ==
    \E s \in SessionIds :
        /\ LastNode(s) = "analyze_query"
        /\ values(s).clarification_count >= 1
        /\ values(s).analysis.is_ambiguous
        /\ run[s].pc = "answer"

\* C2: a session never takes the Clarifier path in two consecutive
\* invocations: after one clarifying turn the router forces the Answerer,
\* also when the Analyzer reports the query ambiguous again.
C2_LoopPrevention ==
    \A s \in SessionIds :
        \A i \in 1..(Len(hist[s]) - 1) :
            hist[s][i] = "clarify" => hist[s][i + 1] = "answer"

C2_Witness ==
    \E s \in SessionIds :
        /\ hist[s] = <<"clarify", "answer">>
        /\ LastNode(s) = "analyze_query"
        /\ values(s).analysis.is_ambiguous

\* C3: the nodes of one invocation run in the order of the graph: the
\* Analyzer once and first, then exactly one of Clarifier and Answerer, the
\* Clarifier followed by the exit, the Summarizer at most once and only
\* directly after the Answerer.
C3_FixedOrder ==
    \A s \in SessionIds :
        LET steps == run[s].steps
            pc == run[s].pc
        IN  \/ steps = <<>> /\ pc \in {"idle", "analyze_query"}
            \/ steps = <<"analyze_query">> /\ pc \in {"clarify", "answer"}
            \/ steps = <<"analyze_query", "clarify">> /\ pc = "idle"
            \/ steps = <<"analyze_query", "answer">> /\ pc \in {"summarize", "idle"}
            \/ steps = <<"analyze_query", "answer", "summarize">> /\ pc = "idle"

C3_Witness ==
    \E s \in SessionIds :
        /\ run[s].steps = <<"analyze_query", "answer", "summarize">>
        /\ Len(hist[s]) = 2
        /\ hist[s][1] = "clarify"

\* C4: after the Answerer the Summarizer is entered exactly when
\* current_token_count is strictly greater than 800; at 800 or less the
\* invocation ends.
C4_Route2 ==
    \A s \in SessionIds :
        LastNode(s) = "answer" =>
            /\ values(s).current_token_count > 800 => run[s].pc = "summarize"
            /\ values(s).current_token_count <= 800 => run[s].pc = "idle"

\* the boundary: exactly 800 tokens after the Answerer, and the invocation ends
C4_Witness ==
    \E s \in SessionIds :
        /\ LastNode(s) = "answer"
        /\ values(s).current_token_count = 800
        /\ run[s].pc = "idle"

\* C5: a successful Answerer on a non-empty history appends exactly one
\* assistant message, the generated reply, after the unchanged history; sets
\* current_token_count to the token count of the whole resulting history;
\* and leaves clarification_count at 0.
C5_AnswerSuccess ==
    \A s \in SessionIds :
        Ran(s, "answer", "ok") =>
            LET before == run[s].pre
                after == values(s)
                n == Len(before.messages)
            IN  /\ n > 0
                /\ Len(after.messages) = n + 1
                /\ SubSeq(after.messages, 1, n) = before.messages
                /\ after.messages[n + 1].role = "ai"
                /\ after.messages[n + 1].content = run[s].response.text
                /\ after.current_token_count = count_tokens(messages_to_text(after.messages))
                /\ after.clarification_count = 0

\* a forced answer after a clarifying turn: the counter is reset from 2 to 0
C5_Witness ==
    \E s \in SessionIds :
        /\ Ran(s, "answer", "ok")
        /\ run[s].pre.clarification_count > 0
        /\ Len(values(s).messages) = 4
        /\ values(s).current_token_count > run[s].pre.current_token_count

\* C6: a failed Answerer lets no error escape, appends exactly one assistant
\* apology message after the unchanged history, and leaves
\* current_token_count and clarification_count as they were.
C6_AnswerFailure ==
    \A s \in SessionIds :
        Ran(s, "answer", "failed") =>
            LET before == run[s].pre
                after == values(s)
                n == Len(before.messages)
            IN  /\ run[s].raised = ""
                /\ Len(after.messages) = n + 1
                /\ SubSeq(after.messages, 1, n) = before.messages
                /\ after.messages[n + 1].role = "ai"
                /\ after.messages[n + 1].content =
                       <<"I apologize, but I encountered an error: ", run[s].response.error>>
                /\ after.current_token_count = before.current_token_count
                /\ after.clarification_count = before.clarification_count

\* a forced answer fails: the counter stays at its value >= 1
C6_Witness ==
    \E s \in SessionIds :
        /\ Ran(s, "answer", "failed")
        /\ run[s].pre.clarification_count >= 1
        /\ values(s).clarification_count >= 1
        /\ run[s].pc = "idle"

\* C7: clarification_count decreases in no step of a session except a
\* successful Answerer execution, which sets it to 0.
C7_CountOnlyResetByAnswer ==
    [][\A s \in SessionIds :
          (/\ Started(s)
           /\ store'[s] # <<>>
           /\ store'[s][1].clarification_count < store[s][1].clarification_count)
          => /\ run[s].pc = "answer"
             /\ run'[s].outcome = "ok"
             /\ run'[s].steps = Append(run[s].steps, "answer")
             /\ store'[s][1].clarification_count = 0]_vars

C7_Witness ==
    \E s \in SessionIds :
        /\ Ran(s, "answer", "ok")
        /\ run[s].pre.clarification_count = 2
        /\ values(s).clarification_count = 0

\* C8: when all 3 attempts of the Analyzer fail, no error escapes, the
\* stored analysis is non-ambiguous with an empty needed_context_from_memory
\* and the latest user text as original_query, and the Answerer is next.
C8_AnalyzerFallback ==
    \A s \in SessionIds :
        Ran(s, "analyze_query", "failed") =>
            LET analysis == values(s).analysis
                messages == values(s).messages
            IN  /\ run[s].requests = 3
                /\ run[s].raised = ""
                /\ analysis.is_ambiguous = FALSE
                /\ analysis.needed_context_from_memory = Some(<<>>)
                /\ messages[Len(messages)].role = "human"
                /\ analysis.original_query = messages[Len(messages)].content
                /\ run[s].pc = "answer"

\* the fallback replaces an ambiguous analysis left by the previous turn,
\* whose user text was another one
C8_Witness ==
    \E s \in SessionIds :
        /\ Ran(s, "analyze_query", "failed")
        /\ run[s].response.error = "schema mismatch"
        /\ run[s].pre.analysis.is_ambiguous
        /\ run[s].pre.analysis.original_query # values(s).analysis.original_query

\* C9: with an empty message sequence the Analyzer issues no generation
\* request and returns normally with a non-ambiguous analysis.
C9_EmptyMessages ==
    \A s \in SessionIds :
        (LastNode(s) = "analyze_query" /\ run[s].pre.messages = <<>>) =>
            /\ run[s].requests = 0
            /\ run[s].raised = ""
            /\ run[s].outcome # "raised"
            /\ values(s).analysis.is_ambiguous = FALSE

\* C10: every stored analysis, and every QueryAnalysis built from a
\* generator output, has no clarifying questions unless it is ambiguous; an
\* output with questions and is_ambiguous = false is accepted with its
\* questions cleared.
C10_QuestionsOnlyWhenAmbiguous ==
    /\ \A s \in SessionIds :
          Started(s) =>
              (~values(s).analysis.is_ambiguous
                  => ~Truthy(values(s).analysis.clarifying_questions))
    /\ \A s \in SessionIds :
          (Ran(s, "analyze_query", "ok") /\ ~run[s].response.is_ambiguous) =>
              /\ ~values(s).analysis.is_ambiguous
              /\ values(s).analysis.clarifying_questions = None

C10_Witness ==
    \E s \in SessionIds :
        /\ Ran(s, "analyze_query", "ok")
        /\ ~run[s].response.is_ambiguous
        /\ Truthy(run[s].response.clarifying_questions)
        /\ values(s).analysis.clarifying_questions = None

\* C11: in every session state needed_context_from_memory holds only the
\* five valid names; when the generator returns other names the attempt
\* still succeeds, the other names are dropped and the valid ones are kept
\* in their original order.
C11_OnlyValidMemoryFields ==
    /\ \A s \in SessionIds :
          Started(s) =>
              LET needed == values(s).analysis.needed_context_from_memory.items
              IN  \A i \in 1..Len(needed) : needed[i] \in valid_fields
    /\ \A s \in SessionIds :
          (Ran(s, "analyze_query", "ok")
             /\ ~run[s].response.needed_context_from_memory.isNone) =>
              LET returned == run[s].response.needed_context_from_memory.items
                  needed == values(s).analysis.needed_context_from_memory
                  keep == {i \in 1..Len(returned) : returned[i] \in valid_fields}
                  \* f maps the positions of needed onto the kept positions
                  \* of returned, in increasing order
                  f == [k \in 1..Len(needed.items) |->
                          CHOOSE i \in keep :
                              Cardinality({j \in keep : j <= i}) = k]
              IN  /\ ~needed.isNone
                  /\ Len(needed.items) = Cardinality(keep)
                  /\ \A k \in 1..Len(needed.items) : needed.items[k] = returned[f[k]]

\* "history" is dropped from between two valid names
C11_Witness ==
    \E s \in SessionIds :
        /\ Ran(s, "analyze_query", "ok")
        /\ run[s].response.needed_context_from_memory.items =
               <<"user_profile", "history", "key_facts">>
        /\ values(s).analysis.needed_context_from_memory.items =
               <<"user_profile", "key_facts">>

C13_RangeForced ==
    \A s \in SessionIds :
        Ran(s, "summarize", "ok") =>
            LET n == Len(run[s].pre.messages)
                stored == values(s).summary
                proposed == run[s].response
            IN  /\ stored.message_range_summarized = [from |-> 0, to |-> n]
                /\ \A f \in valid_fields : stored[f] = proposed[f]

\* the generator proposed {from: 2, to: 1} for 6 messages, 4 of them
\* summarized before
C13_Witness ==
    \E s \in SessionIds :
        /\ Ran(s, "summarize", "ok")
        /\ run[s].response.message_range_summarized = [from |-> 2, to |-> 1]
        /\ run[s].pre.summary.message_range_summarized.to = 4
        /\ values(s).summary.message_range_summarized = [from |-> 0, to |-> 6]

\* C14: after a successful Summarizer execution the persisted message
\* sequence is exactly the last min(5, n) messages of the sequence the
\* Summarizer was called with, in their original order.
C14_PersistedTail ==
    \A s \in SessionIds :
        Ran(s, "summarize", "ok") =>
            LET before == run[s].pre.messages
                n == Len(before)
                kept == IF n < 5 THEN n ELSE 5
            IN  values(s).messages = SubSeq(before, n - kept + 1, n)

\* C15 as stated: after any Summarizer execution, successful or not,
\* current_token_count is the token count of the last-5-message tail of the
\* message history, not of the full history.
C15_CountOverTail ==
    \A s \in SessionIds :
        LastNode(s) = "summarize" =>
            values(s).current_token_count =
                count_tokens(messages_to_text(LastN(run[s].pre.messages, 5)))

\* C15, amended: after a successful Summarizer execution current_token_count
\* is the token count of the last-5-message tail of the message history; an
\* execution that exhausted its attempts leaves current_token_count as the
\* Answerer set it.
C15_CountOverTailOnSuccess ==
    \A s \in SessionIds :
        /\ Ran(s, "summarize", "ok") =>
              values(s).current_token_count =
                  count_tokens(messages_to_text(LastN(run[s].pre.messages, 5)))
        /\ Ran(s, "summarize", "failed") =>
              values(s).current_token_count = run[s].pre.current_token_count

\* 6 messages: the tail of 5 weighs less than the full history
C15_Witness ==
    \E s \in SessionIds :
        /\ Ran(s, "summarize", "ok")
        /\ Len(run[s].pre.messages) = 6
        /\ values(s).current_token_count < run[s].pre.current_token_count
        /\ values(s).current_token_count
               # count_tokens(messages_to_text(run[s].pre.messages))

\* C16: when the Summarizer's generation call fails on all 3 attempts, no
\* error escapes the step and the summary, every field of it, and the
\* message history are exactly as they were before the Summarizer ran.
C16_SummarizerFailure ==
    \A s \in SessionIds :
        Ran(s, "summarize", "failed") =>
            /\ run[s].requests = 3
            /\ run[s].sleeps = <<5, 10>>
            /\ run[s].raised = ""
            /\ run[s].pc = "idle"
            /\ values(s).summary = run[s].pre.summary
            /\ values(s).messages = run[s].pre.messages

\* the failure follows an earlier successful summary, on 6 messages
C16_Witness ==
    \E s \in SessionIds :
        /\ Ran(s, "summarize", "failed")
        /\ run[s].pre.summary.message_range_summarized.to = 4
        /\ run[s].pre.summary.key_facts # <<>>
        /\ Len(values(s).messages) = 6

\* C17: a Summarizer execution that exhausted its attempts is retried: when
\* afterwards, in the same session, an Answerer leaves current_token_count
\* above TOKEN_THRESHOLD, the Summarizer is entered again, the unsummarized
\* slice it finds is not empty (it holds the exchange the failed execution
\* left unsummarized and every later one), and it issues a new generation
\* request.
C17_FailedSummaryRetried ==
    \A s \in SessionIds :
        LET done == summaries[s]
        IN  /\ (/\ done # <<>>
                /\ done[Len(done)] = "failed"
                /\ LastNode(s) = "answer"
                /\ values(s).current_token_count > TOKEN_THRESHOLD) =>
                   /\ run[s].pc = "summarize"
                   /\ messages_to_summarize(values(s)) # <<>>
                   /\ Len(messages_to_summarize(values(s))) >= 4
            /\ (/\ Len(done) >= 2
                /\ done[Len(done) - 1] = "failed"
                /\ LastNode(s) = "summarize") =>
                   run[s].requests >= 1

\* the retry, two invocations after the failure, succeeds at its first request
C17_Witness ==
    \E s \in SessionIds :
        /\ summaries[s] = <<"failed", "ok">>
        /\ Ran(s, "summarize", "ok")
        /\ run[s].requests = 1
        /\ values(s).summary.message_range_summarized.to = 6

\* C18: the Clarifier appends exactly one assistant message after the
\* unchanged history.  Its content is the fixed generic prompt when the
\* analysis has no clarifying questions (absent or empty), the question
\* itself when there is exactly one, and for 2 or 3 questions the fixed
\* preamble followed by one "- question" line per question, in order.
C18_ClarifierMessage ==
    \A s \in SessionIds :
        Ran(s, "clarify", "ok") =>
            LET before == run[s].pre
                after == values(s)
                n == Len(before.messages)
                q == before.analysis.clarifying_questions.items
                content == after.messages[n + 1].content
            IN  /\ Len(after.messages) = n + 1
                /\ SubSeq(after.messages, 1, n) = before.messages
                /\ after.messages[n + 1].role = "ai"
                /\ Len(q) = 0 =>
                      content = <<"I'm not sure I understand. Could you please provide more details?">>
                /\ Len(q) = 1 => content = <<q[1]>>
                /\ Len(q) = 2 =>
                      content = <<"I need some clarification:\n\n",
                                  "- ", q[1], "\n", "- ", q[2]>>
                /\ Len(q) = 3 =>
                      content = <<"I need some clarification:\n\n",
                                  "- ", q[1], "\n", "- ", q[2], "\n", "- ", q[3]>>

\* two questions, asked as a list
C18_Witness ==
    \E s \in SessionIds :
        /\ Ran(s, "clarify", "ok")
        /\ run[s].pre.analysis.clarifying_questions = Some(<<"q1", "q2">>)
        /\ values(s).messages[Len(values(s).messages)].content =
               <<"I need some clarification:\n\n", "- ", "q1", "\n", "- ", "q2">>

\* C19: a Clarifier execution leaves the session's summary and analysis
\* exactly as they were and makes no generation request; whatever analysis
\* the Analyzer stored, the Clarifier can run and it returns normally.
C19_ClarifierFrame ==
    \A s \in SessionIds :
        /\ LastNode(s) = "clarify" =>
              /\ values(s).summary = run[s].pre.summary
              /\ values(s).analysis = run[s].pre.analysis
              /\ run[s].requests = 0
              /\ run[s].response = NoResponse
              /\ run[s].outcome = "ok"
              /\ run[s].raised = ""
        /\ run[s].pc = "clarify" => ENABLED Clarify(s)

\* a clarifying turn in a session that already has a summary
C19_Witness ==
    \E s \in SessionIds :
        /\ Ran(s, "clarify", "ok")
        /\ run[s].pre.summary.message_range_summarized.to = 4
        /\ values(s).summary.key_facts # <<>>
        /\ Truthy(values(s).analysis.clarifying_questions)

\* C20: one Clarifier execution advances the clarification counter by two:
\* from c before the Clarifier runs to c + 2 in the state it returns.
C20_ClarifierCountsTwice ==
    \A s \in SessionIds :
        Ran(s, "clarify", "ok") =>
            values(s).clarification_count = run[s].pre.clarification_count + 2

\* the first clarifying turn of a session takes the counter from 0 to 2
C20_Witness ==
    \E s \in SessionIds :
        /\ Ran(s, "clarify", "ok")
        /\ run[s].pre.clarification_count = 0
        /\ values(s).clarification_count = 2
        /\ hist[s] = <<"clarify">>

\* C21: a missing credential is never retried and halts the turn with a
\* distinct signal: the step that fails to obtain the generation client
\* raises the configuration error out of the invocation, the Analyzer stores
\* no fallback analysis, the Answerer appends no apology message, and no
\* further step of the workflow runs.
C21_ConfigurationHalts ==
    \A s \in SessionIds :
        (~GROQ_API_KEY /\ run[s].steps # <<>> /\ run[s].pre.messages # <<>>) =>
            /\ run[s].steps = <<"analyze_query">>
            /\ run[s].requests = 0
            /\ run[s].raised = "ValueError"
            /\ run[s].pc = "idle"
            /\ values(s) = run[s].pre

\* A session of long questions, every turn of which can reach the Summarizer.
InvokeLong == \E s \in SessionIds : GROQ_API_KEY /\ invoke_graph(s, <<"long question">>)

NextFair == InvokeLong \/ Nodes

\* a workflow step is scheduled in some thread
NodeScheduled == \E s \in SessionIds : run[s].pc # "idle"

\* graph.invoke runs the scheduled step, and every generation call the step
\* makes returns or fails: weak fairness of Nodes, with its enabling
\* condition written out as NodeScheduled and a Nodes step recognised as the
\* step that starts no invocation.
Fairness == []<>(~NodeScheduled) \/ []<><<turns' = turns>>_vars

SpecFair == Init /\ [][NextFair]_vars /\ Fairness

\* the generation requests one execution of `node` may issue
RequestLimit(node) ==
    CASE node = "analyze_query" -> 3
      [] node = "clarify"       -> 0
      [] node = "answer"        -> 1
      [] node = "summarize"     -> 3

\* C22: the turn always completes.  Every invocation started with a user
\* message reaches a terminal step; it runs at most three workflow steps, no
\* step twice, and each step stays within its share of the 7 generation
\* requests (3 Analyzer, 1 Answerer, 3 Summarizer), whatever the generation
\* capability answers.
C22_TurnCompletes ==
    /\ [](\A s \in SessionIds :
            LET steps == run[s].steps
            IN  /\ Len(steps) <= 3
                /\ \A i, j \in 1..Len(steps) : steps[i] = steps[j] => i = j
                \* the step in progress, after `attempt` failed requests
                /\ run[s].attempt > 0 =>
                      /\ run[s].pc # "idle"
                      /\ run[s].requests = run[s].attempt
                      /\ run[s].attempt < RequestLimit(run[s].pc)
                \* the step that returned last
                /\ (steps # <<>> /\ run[s].attempt = 0) =>
                      run[s].requests <= RequestLimit(LastNode(s))
                /\ run[s].raised = ""
                \* a scheduled step can run
                /\ run[s].pc # "idle" => GROQ_API_KEY
                /\ run[s].pc \in {"analyze_query", "answer"} => values(s).messages # <<>>
                /\ run[s].pc = "summarize" => messages_to_summarize(values(s)) # <<>>)
    /\ \A s \in SessionIds : (run[s].pc # "idle") ~> (run[s].pc = "idle")

\* a turn of three steps whose Summarizer used its three attempts in vain
C22_Witness ==
    \E s \in SessionIds :
        /\ run[s].steps = <<"analyze_query", "answer", "summarize">>
        /\ run[s].pc = "idle"
        /\ run[s].requests = 3
        /\ run[s].outcome = "failed"

-----------------------------------------------------------------------------
(* Two browser sessions on distinct thread ids, their invocations           *)
(* interleaved step by step; every thread's inputs are traced in log.       *)

ThreadIds == {"default-session", "session-0"}

SessionAnalysisOutputs ==
    { RawAnalysis(FALSE, None, None),
      RawAnalysis(TRUE, None, Some(<<"q1", "q2">>)) }

InitSessions ==
    /\ store = [s \in ThreadIds |-> <<>>]
    /\ run = [s \in ThreadIds |-> Idle]
    /\ hist = [s \in ThreadIds |-> <<>>]
    /\ summaries = [s \in ThreadIds |-> <<>>]
    /\ sent = [s \in ThreadIds |-> {}]
    /\ log = [s \in ThreadIds |-> <<>>]
    /\ turns = 0
    /\ GROQ_API_KEY = TRUE

SessionInvoke == \E s \in ThreadIds, u \in UserTexts : invoke_graph(s, u)
SessionAnalyze == \E s \in ThreadIds, raw \in SessionAnalysisOutputs : AnalyzeSucceeds(s, raw)
SessionClarify == \E s \in ThreadIds : Clarify(s)
SessionAnswer == \E s \in ThreadIds, c \in Replies : AnswerSucceeds(s, c)
SessionAnswerError == \E s \in ThreadIds, e \in AnswerErrors : AnswerFails(s, e)
SessionSummarize == \E s \in ThreadIds, r \in SummaryOutputs : SummarizeSucceeds(s, r)

NextSessions ==
    \/ SessionInvoke
    \/ SessionAnalyze
    \/ SessionClarify
    \/ SessionAnswer
    \/ SessionAnswerError
    \/ SessionSummarize

SpecSessions == InitSessions /\ [][NextSessions]_vars

\* everything the model keeps for thread s
Local(s) == <<store[s], run[s], hist[s], summaries[s]>>

\* C23: sessions are isolated.  A step of an invocation on one thread id
\* leaves the state of every other thread unchanged, and a thread's state
\* is determined by what the thread itself received, in order: two threads
\* that received the same inputs are in the same state, however their
\* invocations were interleaved with each other.
C23_SessionsIsolated ==
    /\ [][\A s \in ThreadIds : log'[s] = log[s] => Local(s)' = Local(s)]_vars
    /\ [](\A a, b \in ThreadIds : log[a] = log[b] => Local(a) = Local(b))

\* both threads have completed the same turn, one after the other or
\* interleaved, and a third invocation is under way
C23_Witness ==
    \E a, b \in ThreadIds :
        /\ a # b
        /\ Len(store[a]) = 1 /\ Len(store[b]) = 1
        /\ Len(values(a).messages) = 3
        /\ Len(values(b).messages) = 2
        /\ run[a].pc = "analyze_query"
        /\ SubSeq(log[a], 1, Len(log[b])) = log[b]
        /\ SubSeq(values(a).messages, 1, 2) = values(b).messages

\* C24: one execution of the Analyzer or of the Summarizer issues at most
\* 3 generation requests and none after its first success; it waits once
\* between two consecutive attempts, each wait longer than the one before,
\* and it does not wait after the third failed attempt.
C24_RetryPolicy ==
    \A s \in SessionIds :
        LET sleeps == run[s].sleeps
            increasing == \A i \in 1..(Len(sleeps) - 1) : sleeps[i] < sleeps[i + 1]
        IN  /\ (run[s].pc \in {"analyze_query", "summarize"} /\ run[s].attempt > 0) =>
                  /\ run[s].attempt <= 2
                  /\ run[s].requests = run[s].attempt
                  /\ Len(sleeps) = run[s].attempt
                  /\ increasing
            /\ (LastNode(s) \in {"analyze_query", "summarize"} /\ run[s].attempt = 0) =>
                  /\ run[s].requests \in 1..3
                  /\ Len(sleeps) = run[s].requests - 1
                  /\ increasing
                  /\ run[s].outcome \in {"ok", "failed"}
                  /\ run[s].outcome = "failed" => run[s].requests = 3

\* the Summarizer succeeds at its third attempt, after waits of 0.5 s and 1.0 s
C24_Witness ==
    \E s \in SessionIds :
        /\ Ran(s, "summarize", "ok")
        /\ run[s].requests = 3
        /\ run[s].sleeps = <<5, 10>>

\* C25: one Answerer execution on a non-empty history issues exactly one
\* generation request: it has no retry loop, and after a failed request it
\* returns without a second one and without waiting.
C25_AnswererOneRequest ==
    \A s \in SessionIds :
        /\ run[s].pc = "answer" => run[s].attempt = 0
        \* the Answerer has returned and no later step is retrying
        /\ (LastNode(s) = "answer" /\ run[s].attempt = 0) =>
              /\ run[s].pre.messages # <<>>
              /\ run[s].requests = 1
              /\ run[s].sleeps = <<>>
              /\ run[s].outcome \in {"ok", "failed"}

\* the single request failed, and the invocation is over
C25_Witness ==
    \E s \in SessionIds :
        /\ Ran(s, "answer", "failed")
        /\ run[s].requests = 1
        /\ run[s].pc = "idle"

\* whether sequence p is a prefix of sequence q
IsPrefix(p, q) == Len(p) <= Len(q) /\ SubSeq(q, 1, Len(p)) = p

\* C26: the message sequence is append-only within a turn.  No step of an
\* invocation, a successful Summarizer apart, changes or reorders a stored
\* message: the messages stored before the step are a prefix of those
\* stored after it.  An invocation adds exactly the new user message and
\* then exactly one assistant message, so that the k-th invocation of a
\* session ends with 2k messages, user and assistant in turn.
C26_AppendOnly ==
    /\ [][\A s \in SessionIds :
            (/\ Started(s)
             /\ store'[s] # <<>>
             /\ ~(run[s].pc = "summarize" /\ run'[s].outcome = "ok"
                    /\ run'[s].steps # run[s].steps))
            => /\ IsPrefix(store[s][1].messages, store'[s][1].messages)
               /\ Len(store'[s][1].messages) <= Len(store[s][1].messages) + 1]_vars
    /\ [](\A s \in SessionIds :
            Started(s) =>
                LET messages == values(s).messages
                IN  /\ run[s].pc \in {"analyze_query", "clarify", "answer"} =>
                          Len(messages) = 2 * Len(hist[s])
                                          + (IF run[s].pc = "analyze_query" THEN 1 ELSE -1)
                    /\ run[s].pc \in {"summarize", "idle"} =>
                          Len(messages) = 2 * Len(hist[s])
                    /\ \A i \in 1..Len(messages) :
                          messages[i].role = IF i % 2 = 1 THEN "human" ELSE "ai")

\* the third invocation has added its two messages to the four before it
C26_Witness ==
    \E s \in SessionIds :
        /\ LastNode(s) \in {"clarify", "answer"}
        /\ run[s].pc = "idle"
        /\ Len(hist[s]) = 3
        /\ Len(run[s].pre.messages) = 5
        /\ Len(values(s).messages) = 6
        /\ IsPrefix(run[s].pre.messages, values(s).messages)

-----------------------------------------------------------------------------
(* summarize_node as a function of the state it is called with: the states  *)
(* are drawn, whatever the rest of the workflow can produce.                *)

\* summarize_node finds nothing to summarize: before the client is obtained
SummarizeNothing(s) ==
    /\ run[s].pc = "summarize"
    /\ messages_to_summarize(values(s)) = <<>>
    /\ Finish(s, "summarize", summarize_nothing(values(s)), "nothing", 0, NoResponse)

StoredConversation ==
    << [role |-> "human", content |-> <<"long question">>, id |-> 1],
       [role |-> "ai", content |-> <<"long reply">>, id |-> 2],
       [role |-> "human", content |-> <<"Hello">>, id |-> 3],
       [role |-> "ai", content |-> <<"long reply">>, id |-> 4] >>

MaxRangeTo == 5

SummarizeInputs ==
    { [messages |-> SubSeq(StoredConversation, 1, k),
       summary |-> [r EXCEPT !.message_range_summarized = [from |-> 0, to |-> t]],
       analysis |-> QueryAnalysisOf(<<"Hello">>, FALSE, Some(<<>>)),
       current_token_count |-> c,
       clarification_count |-> cc] :
        k \in 0..Len(StoredConversation), r \in SummaryOutputs \cup {SessionSummary},
        t \in 0..MaxRangeTo, c \in {801, 1602}, cc \in {0, 2} }

InitSummarize ==
    /\ \E state \in SummarizeInputs :
          /\ store = [s \in SessionIds |-> <<state>>]
          /\ run = [s \in SessionIds |->
                      [Idle EXCEPT !.pc = "summarize", !.pre = state,
                                   !.steps = <<"analyze_query", "answer">>]]
    /\ hist = [s \in SessionIds |-> <<"answer">>]
    /\ summaries = [s \in SessionIds |-> <<>>]
    /\ sent = [s \in SessionIds |-> {}]
    /\ log = <<>>
    /\ turns = 0
    /\ GROQ_API_KEY = TRUE

SummarizeNoOp == \E s \in SessionIds : SummarizeNothing(s)

NextSummarize ==
    \/ SummarizeNoOp
    \/ SummarizeOk
    \/ SummarizeRetry
    \/ SummarizeExhausted

SpecSummarize == InitSummarize /\ [][NextSummarize]_vars

\* C27: when the Summarizer is entered and the unsummarized slice, the
\* messages from index message_range_summarized.to to the end, is empty, it
\* does nothing: no generation request is issued and messages, summary,
\* current_token_count and clarification_count are unchanged.
C27_EmptySliceNoOp ==
    \A s \in SessionIds :
        (/\ LastNode(s) = "summarize"
         /\ run[s].pre.summary.message_range_summarized.to >= Len(run[s].pre.messages)) =>
            /\ run[s].outcome = "nothing"
            /\ run[s].requests = 0
            /\ run[s].response = NoResponse
            /\ run[s].raised = ""
            /\ values(s).messages = run[s].pre.messages
            /\ values(s).summary = run[s].pre.summary
            /\ values(s).current_token_count = run[s].pre.current_token_count
            /\ values(s).clarification_count = run[s].pre.clarification_count
            /\ values(s).analysis = run[s].pre.analysis

\* all 4 messages were summarized before
C27_Witness ==
    \E s \in SessionIds :
        /\ Ran(s, "summarize", "nothing")
        /\ Len(run[s].pre.messages) = 4
        /\ run[s].pre.summary.message_range_summarized.to = 4
        /\ run[s].pre.summary.key_facts # <<>>
        /\ values(s) = run[s].pre

-----------------------------------------------------------------------------
\* C28: in every reachable session state the stored analysis has at most 3
\* clarifying questions, also when the generator returns more than 3.
C28_AtMostThreeQuestions ==
    \A s \in SessionIds :
        Started(s) => Len(values(s).analysis.clarifying_questions.items) <= 3

-----------------------------------------------------------------------------
\* C29: no message is lost without being summarized: every message that a
\* successful Summarizer execution drops by keeping only the last KeepLast
\* messages was part of the unsummarized slice sent to the generator in that
\* or an earlier successful Summarizer execution; and so was every message
\* below message_range_summarized.to.
C29_NothingLostUnsummarized ==
    \A s \in SessionIds :
        /\ Ran(s, "summarize", "ok") =>
              \A i \in 1..(Len(run[s].pre.messages) - KeepLast) :
                  run[s].pre.messages[i].id \in sent[s]
        /\ Started(s) =>
              \A i \in 1..Len(values(s).messages) :
                  i <= values(s).summary.message_range_summarized.to =>
                      values(s).messages[i].id \in sent[s]

\* 6 messages, the first 4 summarized by an earlier execution: the message
\* dropped now was sent then, not now
C29_Witness ==
    \E s \in SessionIds :
        /\ Ran(s, "summarize", "ok")
        /\ Len(run[s].pre.messages) = 6
        /\ run[s].pre.summary.message_range_summarized.to = 4
        /\ summaries[s] = <<"ok", "ok">>
        /\ Cardinality(sent[s]) = 6

-----------------------------------------------------------------------------
\* C30: in every reachable session state message_range_summarized.to is at
\* most the number of messages in the session's message sequence, so that
\* every message appended after a successful summarization (one no summary
\* request held yet) lies in the next unsummarized slice, messages[to:].
C30_RangeWithinMessages ==
    \A s \in SessionIds :
        Started(s) =>
            LET messages == values(s).messages
                to == values(s).summary.message_range_summarized.to
                slice == messages_to_summarize(values(s))
            IN  /\ to <= Len(messages)
                /\ Len(slice) = Len(messages) - to
                /\ \A i \in 1..Len(messages) :
                      messages[i].id \notin sent[s] =>
                          /\ i > to
                          /\ slice[i - to] = messages[i]

\* an exchange appended after a successful summarization of 4 messages
C30_Witness ==
    \E s \in SessionIds :
        /\ LastNode(s) = "answer"
        /\ summaries[s] = <<"ok">>
        /\ values(s).summary.message_range_summarized.to = 4
        /\ Len(values(s).messages) = 6
        /\ Len(messages_to_summarize(values(s))) = 2
        /\ sent[s] = {1, 2, 3, 4}

-----------------------------------------------------------------------------
\* positions of log[s] where the node named ended with the outcome named
Executions(s, node, outcome) ==
    { i \in 1..Len(log[s]) : log[s][i].node = node /\ log[s][i].outcome = outcome }

\* the Clarifier ran in thread s and the Answerer has not succeeded since
Asked(s) ==
    \E i \in Executions(s, "clarify", "ok") :
        \A k \in Executions(s, "answer", "ok") : k < i

\* C31: between any two Clarifier executions of a session there is a
\* successful Answerer execution: after a clarifying turn every later turn is
\* routed to the Answerer, also when the Analyzer reports the query ambiguous
\* and also after turns whose Answerer failed, until an Answerer call
\* succeeds; the counter stays positive until then.
C31_AnswerBetweenClarifications ==
    \A s \in ThreadIds :
        /\ \A i, j \in Executions(s, "clarify", "ok") :
              i < j => \E k \in Executions(s, "answer", "ok") : i < k /\ k < j
        /\ Asked(s) =>
              /\ run[s].pc # "clarify"
              /\ values(s).clarification_count >= MAX_CLARIFICATION_ATTEMPTS
              /\ LastNode(s) = "analyze_query" => run[s].pc = "answer"

\* clarifying turn, then a turn whose Answerer failed, then a turn whose
\* analysis is ambiguous again and is routed to the Answerer
C31_Witness ==
    \E s \in ThreadIds :
        /\ Asked(s)
        /\ Executions(s, "answer", "failed") # {}
        /\ \E i \in Executions(s, "clarify", "ok"), k \in Executions(s, "answer", "failed") : i < k
        /\ LastNode(s) = "analyze_query"
        /\ values(s).analysis.is_ambiguous
        /\ Truthy(values(s).analysis.clarifying_questions)
        /\ Len(hist[s]) = 3
        /\ run[s].pc = "answer"

-----------------------------------------------------------------------------
(* The workflow as written next to a copy whose Clarifier advances the      *)
(* counter once. Each has its own checkpoint, position and trace; the two   *)
(* are indexed like threads.                                                *)

Written == "clarify_node"
Single == "clarify_node, one increment"
Workflows == {Written, Single}

\* clarify_node without its second increment
clarify_node_single(state) ==
    [clarify_node(state) EXCEPT !.clarification_count = state.clarification_count + 1]

ClarifySingle(s) ==
    /\ run[s].pc = "clarify"
    /\ Finish(s, "clarify", clarify_node_single(values(s)), "ok", 0, NoResponse)

InitCopies ==
    /\ store = [w \in Workflows |-> <<>>]
    /\ run = [w \in Workflows |-> Idle]
    /\ hist = [w \in Workflows |-> <<>>]
    /\ summaries = [w \in Workflows |-> <<>>]
    /\ sent = [w \in Workflows |-> {}]
    /\ log = [w \in Workflows |-> <<>>]
    /\ turns = 0
    /\ GROQ_API_KEY = TRUE

\* the user texts and call results workflow w received, oldest first, are
\* the first ones the workflow as written received
Behind(w) == Len(log[w]) < Len(log[Written]) /\ SubSeq(log[Written], 1, Len(log[w])) = log[w]

\* what the workflow as written received next after what w has received
NextReceived(w) == log[Written][Len(log[w]) + 1]

\* a turn of the sequence: the user's text goes to the workflow as written
CopyInvoke == \E u \in UserTexts : invoke_graph(Written, u)
CopyAnalyze == \E raw \in SessionAnalysisOutputs : AnalyzeSucceeds(Written, raw)
CopyClarify == Clarify(Written)
CopyAnswer == \E c \in Replies : AnswerSucceeds(Written, c)
CopyAnswerError == \E e \in AnswerErrors : AnswerFails(Written, e)
CopySummarize == \E r \in SummaryOutputs : SummarizeSucceeds(Written, r)

\* the same turn in the copy: invoke_graph with the text the workflow as
\* written was given in that turn
SingleInvoke ==
    LET thread_id == Single
        state_snapshot == store[thread_id]
    IN  /\ Behind(Single)
        /\ NextReceived(Single).node = "invoke"
        /\ run[thread_id].pc = "idle"
        /\ LET message == [role |-> "user", content |-> NextReceived(Single).input.text,
                           id |-> 0]
               new == IF state_snapshot # <<>> /\ state_snapshot[1].messages # <<>>
                      THEN [state_snapshot[1] EXCEPT
                              !.messages = add_messages(@, <<message>>)]
                      ELSE ApplyUpdate(initialize_state,
                                       [initialize_state EXCEPT !.messages = <<message>>])
           IN  /\ store' = [store EXCEPT ![thread_id] = <<new>>]
               /\ run' = [run EXCEPT ![thread_id] =
                            [Idle EXCEPT !.pc = "analyze_query", !.pre = new]]
               /\ Logged(thread_id, "invoke", "",
                         [text |-> new.messages[Len(new.messages)].content])
        /\ UNCHANGED <<hist, summaries, sent, turns, GROQ_API_KEY>>

\* the copy's nodes, their calls ending as the calls of the workflow as written did
SingleAnalyze ==
    /\ Behind(Single)
    /\ NextReceived(Single).node = "analyze_query"
    /\ AnalyzeSucceeds(Single, NextReceived(Single).input)

SingleClarify ==
    /\ Behind(Single)
    /\ ClarifySingle(Single)

SingleAnswer ==
    /\ Behind(Single)
    /\ NextReceived(Single).node = "answer"
    /\ NextReceived(Single).outcome = "ok"
    /\ AnswerSucceeds(Single, NextReceived(Single).input.text)

SingleAnswerError ==
    /\ Behind(Single)
    /\ NextReceived(Single).node = "answer"
    /\ NextReceived(Single).outcome = "failed"
    /\ AnswerFails(Single, NextReceived(Single).input.error)

SingleSummarize ==
    /\ Behind(Single)
    /\ NextReceived(Single).node = "summarize"
    /\ SummarizeSucceeds(Single, NextReceived(Single).input)

NextCopies ==
    \/ CopyInvoke
    \/ CopyAnalyze
    \/ CopyClarify
    \/ CopyAnswer
    \/ CopyAnswerError
    \/ CopySummarize
    \/ SingleInvoke
    \/ SingleAnalyze
    \/ SingleClarify
    \/ SingleAnswer
    \/ SingleAnswerError
    \/ SingleSummarize

SpecCopies == InitCopies /\ [][NextCopies]_vars

\* the state of workflow w without its counter
Uncounted(w) ==
    IF store[w] = <<>> THEN <<>>
    ELSE <<[values(w) EXCEPT !.clarification_count = 0]>>

\* C32: with MAX_CLARIFICATION_ATTEMPTS = 1 the double increment of the
\* Clarifier cannot be observed in the routing: after the same user texts
\* and the same generator outcomes, the workflow as written and the copy
\* whose Clarifier adds 1 have taken the same route on every turn, are at
\* the same node, hold the same messages (and summary, analysis and token
\* count), and their counters are both 0, or 2 in the first and 1 in the copy.
C32_DoubleIncrementUnobservable ==
    /\ MAX_CLARIFICATION_ATTEMPTS = 1
    /\ \/ log[Single] = log[Written]
       \/ /\ Behind(Single)
          /\ NextReceived(Single).node =
                 IF run[Single].pc = "idle" THEN "invoke" ELSE run[Single].pc
    /\ log[Written] = log[Single] =>
          /\ hist[Written] = hist[Single]
          /\ run[Written].pc = run[Single].pc
          /\ run[Written].steps = run[Single].steps
          /\ Uncounted(Written) = Uncounted(Single)
          /\ summaries[Written] = summaries[Single]
          /\ Started(Written) =>
                LET c2 == values(Written).clarification_count
                    c1 == values(Single).clarification_count
                IN  \/ c2 = 0 /\ c1 = 0
                    \/ c2 = 2 /\ c1 = 1

\* both have asked once and, the analysis being ambiguous again, both are
\* routed to the Answerer
C32_Witness ==
    /\ log[Written] = log[Single]
    /\ hist[Written] = <<"clarify", "answer">>
    /\ hist[Single] = <<"clarify", "answer">>
    /\ values(Written).clarification_count = 2
    /\ values(Single).clarification_count = 1
    /\ values(Single).analysis.is_ambiguous
    /\ run[Written].pc = "answer"
    /\ run[Single].pc = "answer"
    /\ Len(values(Written).messages) = 3

-----------------------------------------------------------------------------
(* The workflow continued from a session that has had two exchanges, its    *)
(* history above TOKEN_THRESHOLD; log traces what it receives from here on. *)

\* the state a turn leaves that the Analyzer and the Answerer completed
Exchange(state, user_message, raw, content) ==
    LET message == [role |-> "user", content |-> user_message, id |-> 0]
        input == IF state.messages # <<>>
                 THEN [state EXCEPT !.messages = add_messages(@, <<message>>)]
                 ELSE ApplyUpdate(initialize_state,
                                  [initialize_state EXCEPT !.messages = <<message>>])
        analyzed == ApplyUpdate(input, analyze_response(input, raw))
    IN  ApplyUpdate(analyzed, answer_success(analyzed, content))

TwoExchanges ==
    Exchange(Exchange(initialize_state, <<"long question">>,
                      RawAnalysis(FALSE, None, None), <<"long reply">>),
             <<"Hello">>, RawAnalysis(FALSE, None, None), <<"long reply">>)

\* the Summarizer that followed the second exchange succeeded or failed
LaterStates ==
    { ApplyUpdate(TwoExchanges, summarize_response(TwoExchanges, r)) : r \in SummaryOutputs }
        \cup { summarize_failure(TwoExchanges) }

InitLater ==
    /\ \E state \in LaterStates :
          LET ok == state.summary.message_range_summarized.to > 0
          IN  /\ store = [s \in SessionIds |-> <<state>>]
              /\ run = [s \in SessionIds |->
                          [Idle EXCEPT !.steps = <<"analyze_query", "answer", "summarize">>,
                                       !.pre = TwoExchanges,
                                       !.outcome = IF ok THEN "ok" ELSE "failed"]]
              /\ summaries = [s \in SessionIds |-> IF ok THEN <<"ok">> ELSE <<"failed">>]
              /\ sent = [s \in SessionIds |->
                           IF ok THEN { state.messages[i].id : i \in 1..Len(state.messages) }
                           ELSE {}]
    /\ hist = [s \in SessionIds |-> <<"answer", "answer">>]
    /\ log = [s \in SessionIds |-> <<>>]
    /\ turns = 0
    /\ GROQ_API_KEY = TRUE

LaterAnalyze == \E s \in SessionIds, raw \in SessionAnalysisOutputs : AnalyzeSucceeds(s, raw)

NextLater ==
    \/ Invoke
    \/ LaterAnalyze
    \/ ClarifyStep
    \/ AnswerOk
    \/ AnswerError
    \/ SummarizeOk

SpecLater == InitLater /\ [][NextLater]_vars

\* the step taken is the end of node in thread s, with that outcome
Ends(s, node, outcome) ==
    /\ run'[s].steps = Append(run[s].steps, node)
    /\ run'[s].outcome = outcome

\* C33 as stated: a Clarifier execution leaves current_token_count unchanged,
\* the count at the end of a turn that took the Clarifier path is the one from
\* before the turn, and from then on the count is changed only by the next
\* successful Answerer.
C33_CountStaleUntilAnswer ==
    [][\A s \in SessionIds :
          (Asked(s) /\ values(s)'.current_token_count # values(s).current_token_count)
              => Ends(s, "answer", "ok")]_vars

\* C33: a Clarifier execution leaves current_token_count unchanged, and so do
\* the invocation and the Analyzer before it, so at the end of a turn that
\* took the Clarifier path the count has its value from before the turn, one
\* that counts neither the new user message nor the clarifying message. From
\* then on the count is changed only by the next successful Answerer or, when
\* the stale count is above TOKEN_THRESHOLD, by a successful Summarizer that
\* follows a failed Answerer.
C33_CountStaleUntilAnswerOrSummary ==
    /\ [][\A s \in SessionIds :
             /\ (Ends(s, "clarify", "ok") \/ Ends(s, "analyze_query", "ok")
                    \/ run'[s].steps = <<>>) =>
                   values(s)'.current_token_count = values(s).current_token_count
             /\ (Asked(s) /\ values(s)'.current_token_count # values(s).current_token_count) =>
                   \/ Ends(s, "answer", "ok")
                   \/ /\ Ends(s, "summarize", "ok")
                      /\ LastNode(s) = "answer"
                      /\ run[s].outcome = "failed"
                      /\ values(s).current_token_count > TOKEN_THRESHOLD]_vars
    /\ [](\A s \in SessionIds :
             Ran(s, "clarify", "ok") =>
                 LET messages == values(s).messages
                 IN  /\ values(s).current_token_count = run[s].pre.current_token_count
                     /\ values(s).current_token_count
                            <= count_tokens(messages_to_text(
                                   SubSeq(messages, 1, Len(messages) - 2))))

\* the Clarifier's turn left the count as it was; the next turn's Answerer
\* failed and the Summarizer that followed has counted the tokens again
C33_Witness ==
    \E s \in SessionIds :
        /\ Asked(s)
        /\ Ran(s, "summarize", "ok")
        /\ hist[s] = <<"answer", "answer", "clarify", "answer">>
        /\ Executions(s, "answer", "failed") # {}
        /\ Executions(s, "answer", "ok") = {}
        /\ values(s).current_token_count # run[s].pre.current_token_count

====
